---- MODULE Spec2Model ----
(***************************************************************************)
(* The voice-command pipeline of src/app.py: transcription, the Gemini     *)
(* intent parser, the command dispatcher, the five action handlers and the *)
(* correction route, run by concurrent requests against the Supabase       *)
(* tables products, transactions, sales and voice_commands.                *)
(***************************************************************************)
EXTENDS Integers, Sequences, FiniteSets, TLC

(***************************************************************************)
(* Bounds of the model.                                                    *)
(***************************************************************************)
\* Stock of the product the store starts with.
InitQty == 3
\* Store faults (a raised APIError or an empty result) injected in one behaviour.
MaxFaults == 1

(***************************************************************************)
(* Python / JSON values.  Every value carries its type, so that None, a    *)
(* number, a string, a list and a dict are told apart as Python does.  A   *)
(* string is a sequence of characters (a word that is never searched is    *)
(* one character of it); a number is an integer; a confidence is counted   *)
(* in hundredths (100 is 1.0).                                             *)
(***************************************************************************)
None == [t |-> "none"]
Num(n) == [t |-> "num", n |-> n]
Str(s) == [t |-> "str", s |-> s]
Word(w) == Str(<<w>>)
Arr == [t |-> "list"]
Dict(f) == [t |-> "dict", f |-> f]
EmptyDict == Dict(<<>>)
\* A local variable not assigned yet.
Unset == [t |-> "unset"]

IsNum(v) == v.t = "num"
IsDict(v) == v.t = "dict"

\* dict.get(key, default)
Get(d, k, default) == IF k \in DOMAIN d.f THEN d.f[k] ELSE default

\* Python truthiness of a value ("not x" is ~Truthy(x)).
Truthy(v) ==
    CASE v.t = "none" -> FALSE
      [] v.t = "num" -> v.n # 0
      [] v.t = "str" -> v.s # <<>>
      [] v.t = "list" -> FALSE
      [] v.t = "dict" -> DOMAIN v.f # {}

(***************************************************************************)
(* PostgreSQL ILIKE, as the handlers use it: name ILIKE '%' || pattern ||  *)
(* '%', where % matches any run of characters and _ any one character.     *)
(***************************************************************************)
Lower(c) ==
    CASE c = "W" -> "w"
      [] c = "I" -> "i"
      [] c = "G" -> "g"
      [] OTHER -> c

RECURSIVE Like(_, _)
Like(s, p) ==
    IF p = <<>> THEN s = <<>>
    ELSE IF Head(p) = "%"
         THEN Like(s, Tail(p)) \/ (s # <<>> /\ Like(Tail(s), p))
         ELSE /\ s # <<>>
              /\ (Head(p) = "_" \/ Lower(Head(p)) = Lower(Head(s)))
              /\ Like(Tail(s), Tail(p))

Ilike(name, product_name) == Like(name, <<"%">> \o product_name \o <<"%">>)

(***************************************************************************)
(* The intent parser.  The text of a language-model response is a sequence *)
(* of tokens: white space, the opening markdown fence with its json tag,  *)
(* the closing fence, text that is no JSON, and the text of a JSON value.  *)
(***************************************************************************)
Ws == [k |-> "ws"]
FenceJson == [k |-> "fence_json"]
Fence == [k |-> "fence"]
Junk == [k |-> "junk"]
Json(v) == [k |-> "json", v |-> v]

RECURSIVE LStrip(_)
LStrip(text) ==
    IF text # <<>> /\ Head(text) = Ws THEN LStrip(Tail(text)) ELSE text

RECURSIVE RStrip(_)
RStrip(text) ==
    IF text # <<>> /\ text[Len(text)] = Ws
    THEN RStrip(SubSeq(text, 1, Len(text) - 1))
    ELSE text

\* str.strip()
Strip(text) == RStrip(LStrip(text))

\* The two if statements that remove a markdown code block.
StripFence(text) ==
    LET a == IF text # <<>> /\ Head(text) = FenceJson THEN Tail(text) ELSE text
    IN  IF a # <<>> /\ a[Len(a)] = Fence THEN SubSeq(a, 1, Len(a) - 1) ELSE a

\* A lenient parser: the first JSON value found anywhere in the text.
JsonLoads_Lenient(text) ==
    LET found == { i \in DOMAIN text : text[i].k = "json" }
    IN  IF found # {}
        THEN [ok |-> TRUE, value |-> text[CHOOSE i \in found : \A j \in found : i <= j].v]
        ELSE [ok |-> FALSE, value |-> None]

\* json.loads: one JSON value, white space allowed around it; anything else
\* raises JSONDecodeError.
JsonLoads(text) ==
    LET body == Strip(text)
    IN  IF Len(body) = 1 /\ body[1].k = "json"
        THEN [ok |-> TRUE, value |-> body[1].v]
        ELSE [ok |-> FALSE, value |-> None]

\* The command the except branch returns.
FallbackCommand ==
    Dict([intent |-> Word("unknown"), confidence |-> Num(0), entities |-> EmptyDict,
          action |-> Word("Failed to process command")])

\* What model.generate_content did: it raised, or it returned a text.
Raised == [raised |-> TRUE, text |-> <<>>]
Returned(text) == [raised |-> FALSE, text |-> text]

\* process_command_with_gemini, given what model.generate_content did.
process_command_with_gemini(outcome) ==
    IF outcome.raised THEN FallbackCommand
    ELSE LET loaded == JsonLoads(StripFence(Strip(outcome.text)))
         IN  IF loaded.ok THEN loaded.value ELSE FallbackCommand

(***************************************************************************)
(* Python operators on numbers: a None operand raises TypeError.           *)
(***************************************************************************)
PyOk(v) == [ok |-> TRUE, v |-> v]
PyRaise == [ok |-> FALSE, v |-> None]

\* a * b
Mul(a, b) == IF IsNum(a) /\ IsNum(b) THEN PyOk(Num(a.n * b.n)) ELSE PyRaise
\* a - b
Sub(a, b) == IF IsNum(a) /\ IsNum(b) THEN PyOk(Num(a.n - b.n)) ELSE PyRaise
\* a < b
Less(a, b) == IF IsNum(a) /\ IsNum(b) THEN PyOk(a.n < b.n) ELSE PyRaise

(***************************************************************************)
(* The inputs: users, what the language model answers, and the commands    *)
(* its answers hold.                                                       *)
(***************************************************************************)
\* Two tenants.  The requests are A's; B is the tenant whose rows they must
\* leave alone.
Users == {"A", "B"}
Callers == {"A"}
\* The requests in flight at once, each served by its own worker.
Procs == {"r1", "r2"}

\* An entity bag holding the given keys only.
Entities(f) == Dict(f)
Command(intent, f) ==
    Dict([intent |-> Word(intent), confidence |-> Num(90), entities |-> Entities(f)])

NameW == Str(<<"w">>)
NameG == Str(<<"g">>)

SaleCommands ==
    { Command("record_sale", f) : f \in {
        [product_name |-> NameW],
        [product_name |-> NameW, quantity |-> Num(1), price |-> Num(7)],
        [product_name |-> NameW, quantity |-> Num(2)],
        [product_name |-> NameW, quantity |-> Num(InitQty + 1)],
        [product_name |-> NameW, quantity |-> Num(InitQty + 1), price |-> None],
        [product_name |-> NameW, quantity |-> None],
        [product_name |-> NameW, quantity |-> Num(-1)],
        [product_name |-> NameG],
        [product_name |-> None, quantity |-> Num(1)],
        [quantity |-> Num(1)] } }

UpdateCommands ==
    { Command("update_stock", f) : f \in {
        [product_name |-> NameW, quantity |-> Num(0)],
        [product_name |-> NameW, quantity |-> Num(InitQty + 1)],
        [product_name |-> NameW, quantity |-> Num(-1)],
        [product_name |-> NameW, quantity |-> None],
        [product_name |-> NameW],
        [product_name |-> NameG, quantity |-> Num(1)],
        [quantity |-> Num(1)] } }

CheckCommands ==
    { Command("check_stock", f) : f \in {
        [product_name |-> NameW],
        [product_name |-> NameG],
        [product_name |-> None] } }
    \cup { Command("check_stock", <<>>) }

AddCommands ==
    { Command("add_product", f) : f \in {
        [product_name |-> NameW, quantity |-> Num(1), price |-> Num(7)],
        [quantity |-> Num(-1)],
        [product_name |-> None] } }
    \cup { Command("add_product", <<>>) }

ExpenseCommands ==
    { Command("record_expense", f) : f \in {
        [amount |-> Num(9)],
        [amount |-> Num(0)],
        [amount |-> None] } }
    \cup { Command("record_expense", <<>>) }

\* Objects the model may answer that name no handler, or are malformed.
OtherObjects ==
    { Command("unknown", <<>>),
      Command("delete_everything", [product_name |-> NameW]),
      Dict([confidence |-> Num(150), entities |-> EmptyDict]),
      Dict([intent |-> Word("check_stock"), confidence |-> Num(90), entities |-> None]),
      Dict([intent |-> Word("record_sale"), confidence |-> Num(-10), entities |-> Arr]),
      Dict([intent |-> Word("record_expense")]) }

\* JSON values that are no object.
NonObjects == { Arr, None, Num(1) }

JsonValues ==
    SaleCommands \cup UpdateCommands \cup CheckCommands \cup AddCommands
        \cup ExpenseCommands \cup OtherObjects \cup NonObjects

\* Responses that hold no JSON once stripped: an empty body, white space, plain
\* text, fences around nothing.
BadTexts ==
    { <<>>, <<Ws>>, <<Junk>>, <<FenceJson, Fence>>, <<Fence, Ws>>,
      <<Fence, Json(Command("record_sale", [product_name |-> NameW])), Fence>>,
      <<Junk, Json(Command("update_stock", [product_name |-> NameW, quantity |-> Num(0)]))>> }

\* The shapes a response holding the JSON value v comes in.
GoodTexts(v) ==
    { <<Json(v)>>,
      <<Ws, FenceJson, Ws, Json(v), Ws, Fence, Ws>>,
      <<FenceJson, Json(v)>>,
      <<Json(v), Ws, Fence>> }

\* The values the model answers in the two routes: a command of each handler
\* and of each way to name none.
RouteValues ==
    { Command("record_sale", [product_name |-> NameW]),
      Command("record_sale", [product_name |-> NameW, quantity |-> Num(2)]),
      Command("record_sale", [product_name |-> NameW, quantity |-> Num(InitQty + 1)]),
      Command("update_stock", [product_name |-> NameW, quantity |-> Num(0)]),
      Command("update_stock", [product_name |-> NameG, quantity |-> Num(1)]),
      Command("check_stock", [product_name |-> NameW]),
      Command("add_product", [product_name |-> NameW, quantity |-> Num(1), price |-> Num(7)]),
      Command("record_expense", [amount |-> Num(9)]),
      Command("unknown", <<>>),
      Command("delete_everything", [product_name |-> NameW]),
      Dict([confidence |-> Num(150), entities |-> EmptyDict]),
      Arr }

\* Every value comes bare; the fenced shapes come with a value of each kind.
FencedValues ==
    { Command("record_sale", [product_name |-> NameW]), Command("unknown", <<>>), Arr }

LLMOutcomes ==
    {Raised} \cup { Returned(t) : t \in BadTexts }
        \cup { Returned(<<Json(v)>>) : v \in RouteValues }
        \cup UNION { { Returned(t) : t \in GoodTexts(v) } : v \in FencedValues }

(***************************************************************************)
(* State.                                                                  *)
(***************************************************************************)
VARIABLES
    products,        \* table products: id (index) -> row
    transactions,    \* table transactions
    sales,           \* table sales
    voice_commands,  \* table voice_commands
    files,           \* files in the upload folder
    proc,            \* what each request handler is doing, with its locals
    nfaults          \* store faults injected so far

vars == <<products, transactions, sales, voice_commands, files, proc, nfaults>>
store == <<products, transactions, sales, voice_commands>>
ledger == <<products, transactions, sales>>

\* A handler that serves no request.
Idle ==
    [pc |-> "idle", kind |-> "none", user_id |-> "none", command_id |-> 0,
     ext |-> "none",
     text |-> Unset, llm |-> Unset, command |-> Unset, product |-> Unset,
     transaction_id |-> 0, sale |-> Unset, result |-> Unset, response |-> "none"]

\* The rows the store holds before the first request: one product of each user,
\* both matching the product name "w", and only the other user's matching "g".
InitProducts ==
    << [user_id |-> "A", name |-> <<"W", "i">>, unit_price |-> Num(5), quantity |-> Num(InitQty)],
       [user_id |-> "B", name |-> <<"w", "g">>, unit_price |-> Num(3), quantity |-> Num(1)] >>

\* One logged command of each user, as upload_voice leaves it.
InitCommands ==
    << [user_id |-> "A", original_text |-> Word("heard"),
        processed_command |-> Command("check_stock", [product_name |-> NameW]),
        action_taken |-> None, confidence_score |-> Num(90)],
       [user_id |-> "B", original_text |-> Word("heard"),
        processed_command |-> Command("check_stock", [product_name |-> NameW]),
        action_taken |-> None, confidence_score |-> Num(90)] >>

Init ==
    /\ products = InitProducts
    /\ transactions = <<>>
    /\ sales = <<>>
    /\ voice_commands = InitCommands
    /\ files = {}
    /\ proc = [p \in Procs |-> Idle]
    /\ nfaults = 0

(***************************************************************************)
(* The store client.  Each .execute() is one atomic operation that either  *)
(* succeeds, raises (APIError, network), or, for a write whose result.data  *)
(* the code looks at, comes back with empty data and nothing written.      *)
(***************************************************************************)
StoreOutcomes(kinds) == {"ok"} \cup (IF nfaults < MaxFaults THEN kinds ELSE {})
Fault(o) == nfaults' = nfaults + (IF o = "ok" THEN 0 ELSE 1)

\* A select with no owner filter.
SelectProducts_AnyOwner(user_id, product_name) ==
    { i \in DOMAIN products : Ilike(products[i].name, product_name.s) }

\* select('*').eq('user_id', user_id).ilike('name', '%product_name%'): the ids of
\* the rows it returns.
SelectProducts(user_id, product_name) ==
    { i \in DOMAIN products :
        products[i].user_id = user_id /\ Ilike(products[i].name, product_name.s) }

\* products.data[0]: the first row of the select, which has no ORDER BY; the
\* rows come in the table's order, the order they were inserted in.
FirstRow(ids) == CHOOSE i \in ids : \A j \in ids : i <= j

(***************************************************************************)
(* POST /api/voice/upload.                                                 *)
(***************************************************************************)
UploadFile(n) == <<n, "upload">>
\* convert_audio_format: the upload's path with its extension replaced by .wav,
\* which is the upload's own path when that extension is .wav already.
WavFile(n, ext) == IF ext = "wav" THEN UploadFile(n) ELSE <<n, "wav">>

\* The finally block of upload_voice, then the response.
ExitUpload(p, response) ==
    /\ files' = files \ {UploadFile(p)}
    /\ proc' = [proc EXCEPT ![p].pc = "done", ![p].response = response]

\* The request carries no audio file: 400 before anything is saved.
UploadNoAudio(p, u) ==
    /\ proc[p].pc = "idle"
    /\ proc' = [proc EXCEPT ![p] = [Idle EXCEPT !.pc = "done", !.kind = "upload", !.user_id = u, !.response = "400"]]
    /\ UNCHANGED <<store, files, nfaults>>

\* audio_file.save(file_path)
UploadSave(p, u, ext) ==
    /\ proc[p].pc = "idle"
    /\ files' = files \cup {UploadFile(p)}
    /\ proc' = [proc EXCEPT ![p] = [Idle EXCEPT !.pc = "stt", !.kind = "upload", !.user_id = u, !.ext = ext]]
    /\ UNCHANGED <<store, nfaults>>

\* voice_processor.speech_to_text(file_path): the conversion fails before a wav
\* file is written, or the wav file is written and recognition fails or succeeds.
SpeechToText(p, outcome) ==
    LET l == proc[p]
        ext == l.ext
    IN  /\ l.pc = "stt"
        /\ CASE outcome = "convert_failed" ->
                  ExitUpload(p, "500")
             [] outcome = "recognize_failed" ->
                  /\ files' = (files \cup {WavFile(p, ext)}) \ {UploadFile(p)}
                  /\ proc' = [proc EXCEPT ![p].pc = "done", ![p].response = "500"]
             [] outcome = "ok" ->
                  /\ files' = files \cup {WavFile(p, ext)}
                  /\ proc' = [proc EXCEPT ![p].pc = "llm", ![p].text = Word("heard")]
        /\ UNCHANGED <<store, nfaults>>

\* model.generate_content(prompt)
LLMCall(p, outcome) ==
    /\ proc[p].pc = "llm"
    /\ proc' = [proc EXCEPT ![p].pc = "parse", ![p].llm = outcome]
    /\ UNCHANGED <<store, files, nfaults>>

\* The rest of process_command_with_gemini: the caller gets the command.
ParseResponse(p) ==
    LET l == proc[p]
    IN  /\ l.pc = "parse"
        /\ proc' = [proc EXCEPT ![p].pc = IF l.kind = "upload" THEN "log" ELSE "log_update",
                                ![p].llm = Unset,
                                ![p].command = process_command_with_gemini(l.llm)]
        /\ UNCHANGED <<store, files, nfaults>>

\* processed_command.get('confidence', 0.0), which raises AttributeError on a
\* command that is no dict.
ConfidenceOf(command) ==
    IF IsDict(command) THEN PyOk(Get(command, "confidence", Num(0))) ELSE PyRaise

\* The voice_log row and its insert.
LogInsert(p, o) ==
    LET l == proc[p]
        confidence == ConfidenceOf(l.command)
        voice_log == [user_id |-> l.user_id, original_text |-> l.text,
                      processed_command |-> l.command, action_taken |-> None,
                      confidence_score |-> confidence.v]
    IN  /\ l.pc = "log"
        /\ IF ~confidence.ok
           THEN /\ o = "ok"
                /\ ExitUpload(p, "500")
                /\ UNCHANGED <<store, nfaults>>
           ELSE /\ o \in StoreOutcomes({"raise"})
                /\ Fault(o)
                /\ CASE o = "ok" ->
                          /\ voice_commands' = Append(voice_commands, voice_log)
                          /\ proc' = [proc EXCEPT ![p].pc = "dispatch"]
                          /\ UNCHANGED files
                     [] o = "raise" ->
                          /\ ExitUpload(p, "500")
                          /\ UNCHANGED voice_commands
                /\ UNCHANGED ledger

(***************************************************************************)
(* POST /api/voice/correct.                                                *)
(***************************************************************************)
\* The request lacks command_id or corrected_text: 400.
CorrectBadRequest(p, u) ==
    /\ proc[p].pc = "idle"
    /\ proc' = [proc EXCEPT ![p] = [Idle EXCEPT !.pc = "done", !.kind = "correct", !.user_id = u, !.response = "400"]]
    /\ UNCHANGED <<store, files, nfaults>>

\* A lookup by id alone.
CorrectLookup_AnyOwner(p, u, command_id, o) ==
    LET found == command_id \in DOMAIN voice_commands
        next == CASE o = "raise" -> [pc |-> "done", response |-> "500"]
                  [] ~found -> [pc |-> "done", response |-> "404"]
                  [] OTHER -> [pc |-> "llm", response |-> "none"]
    IN  /\ proc[p].pc = "idle"
        /\ o \in StoreOutcomes({"raise"})
        /\ Fault(o)
        /\ proc' = [proc EXCEPT ![p] = [Idle EXCEPT !.pc = next.pc, !.kind = "correct", !.user_id = u,
                                           !.command_id = command_id,
                                           !.text = Word("corrected"),
                                           !.response = next.response]]
        /\ UNCHANGED <<store, files>>

\* The lookup of the original command by id and owner.
CorrectLookup(p, u, command_id, o) ==
    LET found == command_id \in DOMAIN voice_commands
                    /\ voice_commands[command_id].user_id = u
        next == CASE o = "raise" -> [pc |-> "done", response |-> "500"]
                  [] ~found -> [pc |-> "done", response |-> "404"]
                  [] OTHER -> [pc |-> "llm", response |-> "none"]
    IN  /\ proc[p].pc = "idle"
        /\ o \in StoreOutcomes({"raise"})
        /\ Fault(o)
        /\ proc' = [proc EXCEPT ![p] = [Idle EXCEPT !.pc = next.pc, !.kind = "correct", !.user_id = u,
                                           !.command_id = command_id,
                                           !.text = Word("corrected"),
                                           !.response = next.response]]
        /\ UNCHANGED <<store, files>>

\* An update that also gives back to the stock what the command it replaces
\* had sold.
LogUpdate_Reverting(p, o) ==
    LET l == proc[p]
        confidence == ConfidenceOf(l.command)
        original == voice_commands[l.command_id].processed_command
        entities == Get(original, "entities", EmptyDict)
        name == Get(entities, "product_name", None)
        sold == Get(entities, "quantity", Num(1))
        rows == IF Get(original, "intent", None) = Word("record_sale") /\ name.t = "str" /\ IsNum(sold)
                THEN { i \in DOMAIN products :
                         products[i].user_id = l.user_id /\ Ilike(products[i].name, name.s) }
                ELSE {}
    IN  /\ l.pc = "log_update"
        /\ IF ~confidence.ok
           THEN /\ o = "ok"
                /\ proc' = [proc EXCEPT ![p].pc = "done", ![p].response = "500"]
                /\ UNCHANGED <<voice_commands, products, nfaults>>
           ELSE /\ o \in StoreOutcomes({"raise"})
                /\ Fault(o)
                /\ CASE o = "ok" ->
                          /\ voice_commands' =
                                [voice_commands EXCEPT ![l.command_id] =
                                    [@ EXCEPT !.original_text = l.text,
                                              !.processed_command = l.command,
                                              !.confidence_score = confidence.v,
                                              !.action_taken = Word("corrected")]]
                          /\ products' =
                                [i \in DOMAIN products |->
                                    IF i \in rows /\ IsNum(products[i].quantity)
                                    THEN [products[i] EXCEPT !.quantity = Num(@.n + sold.n)]
                                    ELSE products[i]]
                          /\ proc' = [proc EXCEPT ![p].pc = "dispatch"]
                     [] o = "raise" ->
                          /\ proc' = [proc EXCEPT ![p].pc = "done", ![p].response = "500"]
                          /\ UNCHANGED <<voice_commands, products>>
        /\ UNCHANGED <<transactions, sales, files>>

\* update_data and the update of the row with that id.
LogUpdate(p, o) ==
    LET l == proc[p]
        confidence == ConfidenceOf(l.command)
    IN  /\ l.pc = "log_update"
        /\ IF ~confidence.ok
           THEN /\ o = "ok"
                /\ proc' = [proc EXCEPT ![p].pc = "done", ![p].response = "500"]
                /\ UNCHANGED <<voice_commands, nfaults>>
           ELSE /\ o \in StoreOutcomes({"raise"})
                /\ Fault(o)
                /\ CASE o = "ok" ->
                          /\ voice_commands' =
                                [voice_commands EXCEPT ![l.command_id] =
                                    [@ EXCEPT !.original_text = l.text,
                                              !.processed_command = l.command,
                                              !.confidence_score = confidence.v,
                                              !.action_taken = Word("corrected")]]
                          /\ proc' = [proc EXCEPT ![p].pc = "dispatch"]
                     [] o = "raise" ->
                          /\ proc' = [proc EXCEPT ![p].pc = "done", ![p].response = "500"]
                          /\ UNCHANGED voice_commands
        /\ UNCHANGED <<ledger, files>>

(***************************************************************************)
(* execute_voice_command and the five handlers.                            *)
(***************************************************************************)
Result(success, message, arg) ==
    [t |-> "result", success |-> success, message |-> message, arg |-> arg]

\* The except branch of execute_voice_command.
ExecutionFailed == Result(FALSE, "Command execution failed", None)

GiveResult(p, result) == proc' = [proc EXCEPT ![p].pc = "return", ![p].result = result]

IntentOf(command) == Get(command, "intent", None)
EntitiesOf(command) == Get(command, "entities", EmptyDict)

Handlers == {"add_product", "record_sale", "record_expense", "check_stock", "update_stock"}

\* An if/elif chain whose last branch is taken for every other intent.
HandlerOf_LastBranch(intent) ==
    IF intent.t = "str" /\ Len(intent.s) = 1 /\ intent.s[1] \in Handlers
    THEN intent.s[1]
    ELSE "update_stock"

\* The handler the if/elif chain picks, or "none".
HandlerOf(intent) ==
    IF intent.t = "str" /\ Len(intent.s) = 1 /\ intent.s[1] \in Handlers
    THEN intent.s[1]
    ELSE "none"

\* An exception that leaves execute_voice_command reaches the route's except
\* branch (500), through the finally block in upload_voice.
Escape(p) ==
    CASE proc[p].kind = "upload" -> ExitUpload(p, "500")
      [] proc[p].kind = "correct" ->
            /\ proc' = [proc EXCEPT ![p].pc = "done", ![p].response = "500"]
            /\ UNCHANGED files
      [] OTHER ->
            /\ proc' = [proc EXCEPT ![p].pc = "done", ![p].response = "raised"]
            /\ UNCHANGED files

\* execute_voice_command up to the call of a handler.
Dispatch(p) ==
    LET l == proc[p]
    IN  /\ l.pc = "dispatch"
        /\ IF ~IsDict(l.command)
           THEN Escape(p)
           ELSE /\ IF HandlerOf(IntentOf(l.command)) = "none"
                   THEN GiveResult(p, Result(FALSE, "Unknown command intent", None))
                   ELSE proc' = [proc EXCEPT ![p].pc = HandlerOf(IntentOf(l.command))]
                /\ UNCHANGED files
        /\ UNCHANGED <<store, nfaults>>

\* add_product_from_voice
AddProduct(p, o) ==
    LET l == proc[p]
        entities == EntitiesOf(l.command)
        name == Get(entities, "product_name", Word("Unknown Product"))
        product_data == [user_id |-> l.user_id,
                         name |-> IF name.t = "str" THEN name.s ELSE <<>>,
                         unit_price |-> Get(entities, "price", Num(0)),
                         quantity |-> Get(entities, "quantity", Num(0))]
    IN  /\ l.pc = "add_product"
        /\ IF ~IsDict(entities) \/ name.t # "str"
           THEN \* entities.get raises, or the insert violates name NOT NULL
                /\ o = "ok"
                /\ GiveResult(p, ExecutionFailed)
                /\ UNCHANGED <<products, nfaults>>
           ELSE /\ o \in StoreOutcomes({"raise", "empty"})
                /\ Fault(o)
                /\ CASE o = "ok" ->
                          /\ products' = Append(products, product_data)
                          /\ GiveResult(p, Result(TRUE, "Added to inventory", Num(Len(products) + 1)))
                     [] o = "empty" ->
                          /\ GiveResult(p, Result(FALSE, "Failed to add product", None))
                          /\ UNCHANGED products
                     [] o = "raise" ->
                          /\ GiveResult(p, ExecutionFailed)
                          /\ UNCHANGED products
        /\ UNCHANGED <<transactions, sales, voice_commands, files>>

\* The locals of record_sale_from_voice, from its entities and the product row
\* it read.
SaleQuantity(l) == Get(EntitiesOf(l.command), "quantity", Num(1))
SaleUnitPrice(l, product) == Get(EntitiesOf(l.command), "price", product.unit_price)
\* A total taken at the stored price, whatever price the command gives.
SaleTotal_StoredPrice(l, product) == Mul(SaleQuantity(l), product.unit_price)
SaleTotal(l, product) == Mul(SaleQuantity(l), SaleUnitPrice(l, product))

\* The product row with id i, as a select returns it.
ProductRow(i) ==
    [id |-> i, t |-> "row", user_id |-> products[i].user_id, name |-> products[i].name,
     unit_price |-> products[i].unit_price, quantity |-> products[i].quantity]

\* What the lookup shared by record_sale, check_stock and update_stock comes to
\* before a row is used: "raise" (entities is no dict), "no_name", or "select".
LookupKind(entities) ==
    IF ~IsDict(entities) THEN "raise"
    ELSE IF ~Truthy(Get(entities, "product_name", None)) THEN "no_name"
    ELSE "select"

\* record_sale_from_voice up to the stock check: the product lookup, the
\* locals and the check.
RecordSaleSelect(p, o) ==
    LET l == proc[p]
        entities == EntitiesOf(l.command)
        kind == LookupKind(entities)
        matches == SelectProducts(l.user_id, Get(entities, "product_name", None))
    IN  /\ l.pc = "record_sale"
        /\ IF kind # "select"
           THEN /\ o = "ok"
                /\ UNCHANGED nfaults
                /\ GiveResult(p, IF kind = "raise" THEN ExecutionFailed
                                 ELSE Result(FALSE, "Product name not specified", None))
           ELSE /\ o \in StoreOutcomes({"raise"})
                /\ Fault(o)
                /\ IF o = "raise"
                   THEN GiveResult(p, ExecutionFailed)
                   ELSE IF matches = {}
                   THEN GiveResult(p, Result(FALSE, "Product not found", None))
                   ELSE LET product == ProductRow(FirstRow(matches))
                            total_amount == SaleTotal(l, product)
                            short == Less(product.quantity, SaleQuantity(l))
                        IN  IF ~total_amount.ok \/ ~short.ok
                            THEN GiveResult(p, ExecutionFailed)
                            ELSE IF short.v
                            THEN GiveResult(p, Result(FALSE, "Insufficient stock. Available", product.quantity))
                            ELSE proc' = [proc EXCEPT ![p].pc = "sale_transaction",
                                                      ![p].product = product]
        /\ UNCHANGED <<store, files>>

\* transaction_data of record_sale_from_voice; request names the request
\* that inserts the row (the table has no such column: it records the history).
SaleTransactionData(p) ==
    LET l == proc[p]
    IN  [user_id |-> l.user_id, transaction_type |-> "sale",
         amount |-> SaleTotal(l, l.product).v, request |-> p]

\* sale_data that names the newest transaction instead of the one this request
\* inserted.
SaleData_NewestTransaction(p) ==
    LET l == proc[p]
    IN  [user_id |-> l.user_id, transaction_id |-> Len(transactions),
         product_id |-> l.product.id, quantity |-> SaleQuantity(l),
         unit_price |-> SaleUnitPrice(l, l.product),
         total_amount |-> SaleTotal(l, l.product).v, request |-> p]

\* sale_data of record_sale_from_voice.
SaleData(p) ==
    LET l == proc[p]
    IN  [user_id |-> l.user_id, transaction_id |-> l.transaction_id,
         product_id |-> l.product.id, quantity |-> SaleQuantity(l),
         unit_price |-> SaleUnitPrice(l, l.product),
         total_amount |-> SaleTotal(l, l.product).v, request |-> p]

\* The insert of transaction_data.
RecordSaleTransaction(p, o) ==
    LET l == proc[p]
        transaction_data == SaleTransactionData(p)
    IN  /\ l.pc = "sale_transaction"
        /\ o \in StoreOutcomes({"raise", "empty"})
        /\ Fault(o)
        /\ CASE o = "ok" ->
                  /\ transactions' = Append(transactions, transaction_data)
                  /\ proc' = [proc EXCEPT ![p].pc = "sale_sale",
                                          ![p].transaction_id = Len(transactions) + 1]
             [] o = "empty" ->
                  /\ GiveResult(p, Result(FALSE, "Failed to record sale", None))
                  /\ UNCHANGED transactions
             [] o = "raise" ->
                  /\ GiveResult(p, ExecutionFailed)
                  /\ UNCHANGED transactions
        /\ UNCHANGED <<products, sales, voice_commands, files>>

\* The insert of sale_data; the handler goes on whatever sale_result.data holds.
RecordSaleSale(p, o) ==
    LET l == proc[p]
        sale_data == SaleData(p)
    IN  /\ l.pc = "sale_sale"
        /\ o \in StoreOutcomes({"raise", "empty"})
        /\ Fault(o)
        /\ CASE o = "ok" ->
                  /\ sales' = Append(sales, sale_data)
                  /\ proc' = [proc EXCEPT ![p].pc = "sale_stock",
                                          ![p].sale = Num(Len(sales) + 1)]
             [] o = "empty" ->
                  /\ proc' = [proc EXCEPT ![p].pc = "sale_stock", ![p].sale = None]
                  /\ UNCHANGED sales
             [] o = "raise" ->
                  /\ GiveResult(p, ExecutionFailed)
                  /\ UNCHANGED sales
        /\ UNCHANGED <<products, transactions, voice_commands, files>>

\* A decrement of the quantity stored at the moment of the write.
NewQuantity_FromStored(l) == Sub(products[l.product.id].quantity, SaleQuantity(l)).v

\* new_quantity, computed from the row read at the lookup.
NewQuantity(l) == Sub(l.product.quantity, SaleQuantity(l)).v

\* The stock update of record_sale_from_voice and its return.
RecordSaleStock(p, o) ==
    LET l == proc[p]
    IN  /\ l.pc = "sale_stock"
        /\ o \in StoreOutcomes({"raise"})
        /\ Fault(o)
        /\ CASE o = "ok" ->
                  /\ products' = [products EXCEPT ![l.product.id].quantity = NewQuantity(l)]
                  /\ GiveResult(p, Result(TRUE, "Recorded sale", l.sale))
             [] o = "raise" ->
                  /\ GiveResult(p, ExecutionFailed)
                  /\ UNCHANGED products
        /\ UNCHANGED <<transactions, sales, voice_commands, files>>

\* record_expense_from_voice
RecordExpense(p, o) ==
    LET l == proc[p]
        entities == EntitiesOf(l.command)
        amount == Get(entities, "amount", None)
        transaction_data ==
            [user_id |-> l.user_id, transaction_type |-> "expense", amount |-> amount,
             request |-> p]
    IN  /\ l.pc = "record_expense"
        /\ IF ~IsDict(entities) \/ ~Truthy(amount)
           THEN /\ o = "ok"
                /\ GiveResult(p, IF ~IsDict(entities) THEN ExecutionFailed
                                 ELSE Result(FALSE, "Amount not specified", None))
                /\ UNCHANGED <<transactions, nfaults>>
           ELSE /\ o \in StoreOutcomes({"raise", "empty"})
                /\ Fault(o)
                /\ CASE o = "ok" ->
                          /\ transactions' = Append(transactions, transaction_data)
                          /\ GiveResult(p, Result(TRUE, "Recorded expense", amount))
                     [] o = "empty" ->
                          /\ GiveResult(p, Result(FALSE, "Failed to record expense", None))
                          /\ UNCHANGED transactions
                     [] o = "raise" ->
                          /\ GiveResult(p, ExecutionFailed)
                          /\ UNCHANGED transactions
        /\ UNCHANGED <<products, sales, voice_commands, files>>

\* A check that also writes the row it reports, as the stock handlers do.
CheckStock_Writes(p, o) ==
    LET l == proc[p]
        entities == EntitiesOf(l.command)
        kind == LookupKind(entities)
        matches == SelectProducts(l.user_id, Get(entities, "product_name", None))
    IN  /\ l.pc = "check_stock"
        /\ IF kind # "select"
           THEN /\ o = "ok"
                /\ UNCHANGED <<nfaults, products>>
                /\ GiveResult(p, IF kind = "raise" THEN ExecutionFailed
                                 ELSE Result(FALSE, "Product name not specified", None))
           ELSE /\ o \in StoreOutcomes({"raise"})
                /\ Fault(o)
                /\ IF o = "raise"
                   THEN GiveResult(p, ExecutionFailed) /\ UNCHANGED products
                   ELSE IF matches = {}
                   THEN GiveResult(p, Result(FALSE, "Product not found", None)) /\ UNCHANGED products
                   ELSE /\ GiveResult(p, Result(TRUE, "units in stock", ProductRow(FirstRow(matches))))
                        /\ products' = [products EXCEPT ![FirstRow(matches)].quantity = Num(0)]
        /\ UNCHANGED <<transactions, sales, voice_commands, files>>

\* check_stock_from_voice
CheckStock(p, o) ==
    LET l == proc[p]
        entities == EntitiesOf(l.command)
        kind == LookupKind(entities)
        matches == SelectProducts(l.user_id, Get(entities, "product_name", None))
    IN  /\ l.pc = "check_stock"
        /\ IF kind # "select"
           THEN /\ o = "ok"
                /\ UNCHANGED nfaults
                /\ GiveResult(p, IF kind = "raise" THEN ExecutionFailed
                                 ELSE Result(FALSE, "Product name not specified", None))
           ELSE /\ o \in StoreOutcomes({"raise"})
                /\ Fault(o)
                /\ IF o = "raise"
                   THEN GiveResult(p, ExecutionFailed)
                   ELSE IF matches = {}
                   THEN GiveResult(p, Result(FALSE, "Product not found", None))
                   ELSE GiveResult(p, Result(TRUE, "units in stock", ProductRow(FirstRow(matches))))
        /\ UNCHANGED <<store, files>>

\* A lookup that takes a quantity of zero for a missing one (not quantity).
UpdateStockSelect_Falsy(p, o) ==
    LET l == proc[p]
        entities == EntitiesOf(l.command)
        kind == LookupKind(entities)
        matches == SelectProducts(l.user_id, Get(entities, "product_name", None))
    IN  /\ l.pc = "update_stock"
        /\ IF kind = "raise"
           THEN /\ o = "ok"
                /\ UNCHANGED nfaults
                /\ GiveResult(p, ExecutionFailed)
           ELSE IF kind = "no_name" \/ ~Truthy(Get(entities, "quantity", None))
           THEN /\ o = "ok"
                /\ UNCHANGED nfaults
                /\ GiveResult(p, Result(FALSE, "Product name and quantity required", None))
           ELSE /\ o \in StoreOutcomes({"raise"})
                /\ Fault(o)
                /\ IF o = "raise"
                   THEN GiveResult(p, ExecutionFailed)
                   ELSE IF matches = {}
                   THEN GiveResult(p, Result(FALSE, "Product not found", None))
                   ELSE proc' = [proc EXCEPT ![p].pc = "update_write",
                                             ![p].product = ProductRow(FirstRow(matches))]
        /\ UNCHANGED <<store, files>>

\* update_stock_from_voice up to the row it picks.
UpdateStockSelect(p, o) ==
    LET l == proc[p]
        entities == EntitiesOf(l.command)
        kind == LookupKind(entities)
        matches == SelectProducts(l.user_id, Get(entities, "product_name", None))
    IN  /\ l.pc = "update_stock"
        /\ IF kind = "raise"
           THEN /\ o = "ok"
                /\ UNCHANGED nfaults
                /\ GiveResult(p, ExecutionFailed)
           ELSE IF kind = "no_name" \/ Get(entities, "quantity", None) = None
           THEN /\ o = "ok"
                /\ UNCHANGED nfaults
                /\ GiveResult(p, Result(FALSE, "Product name and quantity required", None))
           ELSE /\ o \in StoreOutcomes({"raise"})
                /\ Fault(o)
                /\ IF o = "raise"
                   THEN GiveResult(p, ExecutionFailed)
                   ELSE IF matches = {}
                   THEN GiveResult(p, Result(FALSE, "Product not found", None))
                   ELSE proc' = [proc EXCEPT ![p].pc = "update_write",
                                             ![p].product = ProductRow(FirstRow(matches))]
        /\ UNCHANGED <<store, files>>

\* The update of update_stock_from_voice and its return.
UpdateStockWrite(p, o) ==
    LET l == proc[p]
        quantity == Get(EntitiesOf(l.command), "quantity", None)
    IN  /\ l.pc = "update_write"
        /\ o \in StoreOutcomes({"raise", "empty"})
        /\ Fault(o)
        /\ CASE o = "ok" ->
                  /\ products' = [products EXCEPT ![l.product.id].quantity = quantity]
                  /\ GiveResult(p, Result(TRUE, "Updated stock", quantity))
             [] o = "empty" ->
                  /\ GiveResult(p, Result(FALSE, "Failed to update stock", None))
                  /\ UNCHANGED products
             [] o = "raise" ->
                  /\ GiveResult(p, ExecutionFailed)
                  /\ UNCHANGED products
        /\ UNCHANGED <<transactions, sales, voice_commands, files>>

\* execute_voice_command returns its handler's result to the route, which
\* answers 200 (upload_voice through its finally block).
Return(p) ==
    LET l == proc[p]
    IN  /\ l.pc = "return"
        /\ CASE l.kind = "upload" -> ExitUpload(p, "200")
             [] l.kind = "correct" ->
                  /\ proc' = [proc EXCEPT ![p].pc = "done", ![p].response = "200"]
                  /\ UNCHANGED files
             [] OTHER ->
                  /\ proc' = [proc EXCEPT ![p].pc = "done", ![p].response = "returned"]
                  /\ UNCHANGED files
        /\ UNCHANGED <<store, nfaults>>

\* A direct call of execute_voice_command(user_id, command).
Call(p, u, command) ==
    /\ proc[p].pc = "idle"
    /\ proc' = [proc EXCEPT ![p] = [Idle EXCEPT !.pc = "dispatch", !.kind = "call", !.user_id = u,
                                       !.command = command]]
    /\ UNCHANGED <<store, files, nfaults>>

(***************************************************************************)
(* Specifications.                                                         *)
(***************************************************************************)
SttOutcomes == {"convert_failed", "recognize_failed", "ok"}
Exts == {"wav", "webm"}
AllOutcomes == {"ok", "raise", "empty"}
\* Ids a correction may name: the rows logged before, a row an upload adds, and
\* an id no row has.
CommandIds == 1 .. (Len(InitCommands) + 2)

\* The steps of execute_voice_command and its handlers.
Execute(p) ==
    \/ Dispatch(p)
    \/ \E o \in AllOutcomes : AddProduct(p, o)
    \/ \E o \in AllOutcomes : RecordSaleSelect(p, o)
    \/ \E o \in AllOutcomes : RecordSaleTransaction(p, o)
    \/ \E o \in AllOutcomes : RecordSaleSale(p, o)
    \/ \E o \in AllOutcomes : RecordSaleStock(p, o)
    \/ \E o \in AllOutcomes : RecordExpense(p, o)
    \/ \E o \in AllOutcomes : CheckStock(p, o)
    \/ \E o \in AllOutcomes : UpdateStockSelect(p, o)
    \/ \E o \in AllOutcomes : UpdateStockWrite(p, o)
    \/ Return(p)

\* The two voice routes, served by concurrent workers.
Next ==
    \E p \in Procs :
        \/ \E u \in Callers : UploadNoAudio(p, u)
        \/ \E u \in Callers, ext \in Exts : UploadSave(p, u, ext)
        \/ \E outcome \in SttOutcomes : SpeechToText(p, outcome)
        \/ \E outcome \in LLMOutcomes : LLMCall(p, outcome)
        \/ ParseResponse(p)
        \/ \E o \in AllOutcomes : LogInsert(p, o)
        \/ \E u \in Callers : CorrectBadRequest(p, u)
        \/ \E u \in Callers, id \in CommandIds, o \in AllOutcomes : CorrectLookup(p, u, id, o)
        \/ \E o \in AllOutcomes : LogUpdate(p, o)
        \/ Execute(p)

Spec == Init /\ [][Next]_vars

\* execute_voice_command called directly on every value the parser can return.
NextDispatch ==
    \E p \in Procs :
        \/ \E u \in Callers, command \in JsonValues : Call(p, u, command)
        \/ Execute(p)

SpecDispatch == Init /\ [][NextDispatch]_vars

(***************************************************************************)
(* The claims.                                                             *)
(***************************************************************************)

\* C1: in every reachable state every product's quantity is a number >= 0.
C1_QuantityNeverNegative ==
    \A i \in DOMAIN products :
        IsNum(products[i].quantity) /\ products[i].quantity.n >= 0

\* RecordSale is about to look up a product of which it asks more than the
\* matched row holds.
C2_AsksMoreThanStored(p) ==
    LET l == proc[p]
        entities == EntitiesOf(l.command)
        name == Get(entities, "product_name", None)
        quantity == Get(entities, "quantity", Num(1))
        matches == SelectProducts(l.user_id, name)
    IN  /\ l.pc = "record_sale"
        /\ IsDict(entities)
        /\ name.t = "str" /\ name.s # <<>>
        /\ matches # {}
        /\ IsNum(quantity)
        /\ IsNum(products[FirstRow(matches)].quantity)
        /\ quantity.n > products[FirstRow(matches)].quantity.n

C2_Matched(p) ==
    FirstRow(SelectProducts(proc[p].user_id,
                            Get(EntitiesOf(proc[p].command), "product_name", None)))

\* C2: a RecordSale that asks for more than the matched product's stored
\* quantity fails with "Insufficient stock" and the available quantity, and
\* writes no transaction, no sale and no quantity (the store itself not failing).
C2_InsufficientStockRejected ==
    [][\A p \in Procs :
         (C2_AsksMoreThanStored(p) /\ proc'[p] # proc[p] /\ nfaults' = nfaults)
            => /\ proc'[p].result =
                    Result(FALSE, "Insufficient stock. Available",
                           products[C2_Matched(p)].quantity)
               /\ UNCHANGED ledger]_vars

\* C3: the stock write of a successful RecordSale leaves the stored quantity
\* at what was stored just before that write, minus the sold quantity.
C3_ExactDecrement ==
    [][\A p \in Procs :
         (proc[p].pc = "sale_stock" /\ proc'[p].pc = "return" /\ proc'[p].result.success)
            => products'[proc[p].product.id].quantity =
                  Num(products[proc[p].product.id].quantity.n - SaleQuantity(proc[p]).n)]_vars

\* C4: every stored Sale has total_amount = quantity * unit_price, its
\* unit_price is the command's price or, the command giving none, the
\* product's stored unit price, and its sale transaction holds the same amount.
C4_SaleTotals ==
    \A k \in DOMAIN sales :
        LET s == sales[k]
            entities == EntitiesOf(proc[s.request].command)
        IN  /\ s.total_amount = Num(s.quantity.n * s.unit_price.n)
            /\ s.unit_price = (IF "price" \in DOMAIN entities.f
                               THEN entities.f.price
                               ELSE products[s.product_id].unit_price)
            /\ s.transaction_id \in DOMAIN transactions
            /\ transactions[s.transaction_id].amount = s.total_amount

\* Two sales are stored, one at the command's price and one at the stored price.
C4_Witness ==
    \E j, k \in DOMAIN sales :
        /\ "price" \in DOMAIN EntitiesOf(proc[sales[j].request].command).f
        /\ sales[j].unit_price # products[sales[j].product_id].unit_price
        /\ "price" \notin DOMAIN EntitiesOf(proc[sales[k].request].command).f
        /\ sales[k].quantity.n > 1

\* C5: every Sale references one existing transaction of type sale, inserted by
\* the same RecordSale before the Sale was, and no two Sales share a transaction.
C5_SaleReferencesOwnTransaction ==
    [][\A k \in DOMAIN sales' :
         LET s == sales'[k]
         IN  /\ s.transaction_id \in DOMAIN transactions'
             /\ transactions'[s.transaction_id].transaction_type = "sale"
             /\ transactions'[s.transaction_id].request = s.request
             /\ (k \notin DOMAIN sales => s.transaction_id \in DOMAIN transactions)
             /\ \A j \in DOMAIN sales' :
                    j # k => sales'[j].transaction_id # s.transaction_id]_vars

\* Two sales whose inserts interleaved: the first Sale stored belongs to the
\* second transaction stored.
C5_Witness ==
    /\ Len(sales) = 2
    /\ sales[1].transaction_id = 2
    /\ sales[2].transaction_id = 1

C6_Recognized ==
    { Word("add_product"), Word("record_sale"), Word("record_expense"),
      Word("check_stock"), Word("update_stock") }

C6_UnknownResult ==
    [t |-> "result", success |-> FALSE, message |-> "Unknown command intent", arg |-> None]

\* C6: dispatching a command whose intent is none of the five recognized ones
\* returns the "Unknown command intent" failure in that one step, calling no
\* handler and leaving products, transactions, sales and the log as they were.
C6_UnknownIntentTouchesNothing ==
    [][\A p \in Procs :
         (/\ proc[p].pc = "dispatch"
          /\ IsDict(proc[p].command)
          /\ IntentOf(proc[p].command) \notin C6_Recognized
          /\ proc'[p] # proc[p])
            => /\ proc'[p].pc = "return"
               /\ proc'[p].result = C6_UnknownResult
               /\ UNCHANGED store]_vars

\* A bogus intent and a missing intent have both been dispatched.
C6_Witness ==
    \E p, q \in Procs :
        /\ proc[p].result = C6_UnknownResult
        /\ IntentOf(proc[p].command) = Word("delete_everything")
        /\ proc[q].result = C6_UnknownResult
        /\ "intent" \notin DOMAIN proc[q].command.f

\* C7: no call of execute_voice_command lets an exception escape: each ends
\* with a result returned.
C7_DispatchTotal ==
    \A p \in Procs :
        /\ proc[p].response # "raised"
        /\ proc[p].pc = "done" => proc[p].result.t # "unset"

C8_IsFallback(command) ==
    /\ IsDict(command)
    /\ IntentOf(command) = Word("unknown")
    /\ Get(command, "confidence", None) = Num(0)
    /\ EntitiesOf(command) = Dict(<<>>)
    /\ "entities" \in DOMAIN command.f

\* C8: when the language-model call raises or returns a text holding no JSON,
\* the parser returns, without raising, the command with intent unknown,
\* confidence 0.0 and empty entities; and no step of the request that holds
\* that command changes a product, a transaction or a sale.
C8_ParserFallback ==
    [][\A p \in Procs :
         /\ (/\ proc[p].pc = "parse"
             /\ (proc[p].llm.raised \/ proc[p].llm.text \in BadTexts)
             /\ proc'[p] # proc[p])
               => /\ C8_IsFallback(proc'[p].command)
                  /\ proc'[p].pc \in {"log", "log_update"}
         /\ (C8_IsFallback(proc[p].command) /\ proc'[p] # proc[p])
               => UNCHANGED ledger]_vars

\* An upload whose parse fell back was logged, dispatched and answered.
C8_Witness ==
    \E p \in Procs :
        /\ proc[p].pc = "done"
        /\ proc[p].kind = "upload"
        /\ proc[p].response = "200"
        /\ C8_IsFallback(proc[p].command)
        /\ proc[p].result = C6_UnknownResult

C9_Intents ==
    { Word("add_product"), Word("record_sale"), Word("record_expense"),
      Word("check_stock"), Word("update_stock"), Word("unknown") }

\* C9: every command the parser returns for a JSON object has one of the six
\* intents and a confidence within [0, 1].
C9_CommandWellFormed ==
    \A p \in Procs :
        IsDict(proc[p].command)
            => /\ IntentOf(proc[p].command) \in C9_Intents
               /\ IsNum(Get(proc[p].command, "confidence", None))
               /\ Get(proc[p].command, "confidence", None).n \in 0 .. 100

\* C10: a CheckStock step changes no product, transaction, sale or logged
\* command, reports the quantity stored for the caller's row at that moment,
\* and reports what an earlier CheckStock of the same command reported when
\* nothing ran in between.
C10_CheckStockReadOnly ==
    [][\A p \in Procs :
         (proc[p].pc = "check_stock" /\ proc'[p] # proc[p])
            => /\ UNCHANGED store
               /\ proc'[p].result.success
                    => /\ proc'[p].result.arg.user_id = proc[p].user_id
                       /\ proc'[p].result.arg.quantity =
                             products[proc'[p].result.arg.id].quantity
               /\ \A q \in Procs \ {p} :
                    (/\ proc[q].pc \in {"return", "done"}
                     /\ proc[q].command = proc[p].command
                     /\ proc[q].user_id = proc[p].user_id
                     /\ proc[q].result.success
                     /\ proc'[p].result.success)
                        => proc'[p].result = proc[q].result]_vars

\* Two CheckStock calls of the same command have both reported a quantity.
C10_Witness ==
    \E p, q \in Procs :
        /\ p # q
        /\ IsDict(proc[p].command)
        /\ IntentOf(proc[p].command) = Word("check_stock")
        /\ proc[p].command = proc[q].command
        /\ proc[p].result.t # "unset" /\ proc[p].result.success
        /\ proc[q].result.t # "unset" /\ proc[q].result.success
        /\ proc[p].result.arg.quantity = Num(InitQty)

\* The entities of the command request p holds, and the reading of them that
\* UpdateStock makes.
C11_Entities(p) == EntitiesOf(proc[p].command)

C11_Name(p) == Get(C11_Entities(p), "product_name", None)

C11_Quantity(p) == Get(C11_Entities(p), "quantity", None)

\* C11: an UpdateStock whose product name matches and whose quantity is a
\* number (zero included) picks the caller's first matching row, then sets that
\* row's quantity to the given value, succeeds, and changes no other product,
\* no transaction and no sale; an UpdateStock with no product name or with a
\* missing or null quantity returns a failure and changes nothing (the store
\* itself not failing).
C11_UpdateStockOverwrites ==
    [][\A p \in Procs :
         /\ (/\ proc[p].pc = "update_stock"
             /\ IsDict(C11_Entities(p))
             /\ proc'[p] # proc[p]
             /\ nfaults' = nfaults)
               => IF ~Truthy(C11_Name(p)) \/ C11_Quantity(p) = None
                  THEN /\ proc'[p].pc = "return"
                       /\ ~proc'[p].result.success
                       /\ UNCHANGED store
                  ELSE (IsNum(C11_Quantity(p)) /\ SelectProducts(proc[p].user_id, C11_Name(p)) # {})
                          => /\ proc'[p].pc = "update_write"
                             /\ proc'[p].product.id =
                                   FirstRow(SelectProducts(proc[p].user_id, C11_Name(p)))
                             /\ UNCHANGED store
         /\ (proc[p].pc = "update_write" /\ proc'[p] # proc[p] /\ nfaults' = nfaults)
               => /\ proc'[p].pc = "return"
                  /\ proc'[p].result.success
                  /\ products' = [products EXCEPT ![proc[p].product.id].quantity = C11_Quantity(p)]
                  /\ UNCHANGED <<transactions, sales, voice_commands>>]_vars

\* An UpdateStock to zero has succeeded and the row holds zero, and another
\* UpdateStock with a null quantity was refused.
C11_Witness ==
    \E p, q \in Procs :
        /\ proc[p].pc = "done" /\ proc[p].result.t # "unset" /\ proc[p].result.success
        /\ IntentOf(proc[p].command) = Word("update_stock")
        /\ C11_Quantity(p) = Num(0)
        /\ products[1].quantity = Num(0)
        /\ proc[q].pc = "done" /\ IsDict(proc[q].command)
        /\ IntentOf(proc[q].command) = Word("update_stock")
        /\ "quantity" \in DOMAIN C11_Entities(q).f /\ C11_Quantity(q) = None
        /\ proc[q].result.t # "unset" /\ ~proc[q].result.success

\* The owners no request is made for.
C12_Others == Users \ Callers

\* Every row of a table that another owner holds is kept as it is, and no row
\* of another owner is added.
C12_Kept(old, new) ==
    /\ \A i \in DOMAIN old :
          old[i].user_id \in C12_Others => i \in DOMAIN new /\ new[i] = old[i]
    /\ \A i \in DOMAIN new :
          new[i].user_id \in C12_Others => i \in DOMAIN old

\* C12: no step of a submission, correction or handler run for one owner
\* changes or adds a product, transaction, sale or logged command of another
\* owner, and no product row it reads, reports or sells is another owner's.
C12_TenantIsolation ==
    [][/\ C12_Kept(products, products')
       /\ C12_Kept(transactions, transactions')
       /\ C12_Kept(sales, sales')
       /\ C12_Kept(voice_commands, voice_commands')
       /\ \A k \in DOMAIN sales' :
             products'[sales'[k].product_id].user_id = sales'[k].user_id
       /\ \A p \in Procs :
             /\ proc'[p].product.t = "row" => proc'[p].product.user_id = proc'[p].user_id
             /\ (proc'[p].result.t = "result" /\ proc'[p].result.arg.t = "row")
                   => proc'[p].result.arg.user_id = proc'[p].user_id]_vars

\* One request named a product only the other owner holds and was told it is
\* not found; a correction named the other owner's logged command and got 404.
C12_Witness ==
    \E p, q \in Procs :
        /\ proc[p].pc = "done" /\ IsDict(proc[p].command)
        /\ IsDict(EntitiesOf(proc[p].command))
        /\ Get(EntitiesOf(proc[p].command), "product_name", None) = NameG
        /\ proc[p].result = Result(FALSE, "Product not found", None)
        /\ \E i \in DOMAIN products :
              products[i].user_id \in C12_Others /\ Ilike(products[i].name, NameG.s)
        /\ proc[q].kind = "correct" /\ proc[q].response = "404"
        /\ proc[q].command_id \in DOMAIN voice_commands
        /\ voice_commands[proc[q].command_id].user_id \in C12_Others

\* C13: a correction that found the caller's entry overwrites that entry in
\* place with the corrected text, the newly parsed command, its confidence and
\* action_taken "corrected", adds no entry, and goes on to dispatch the command
\* and answer 200 with its result (the store itself not failing); and an entry
\* that is corrected stays corrected.
C13_CorrectionOverwrites ==
    [][/\ \A p \in Procs :
             /\ (proc[p].pc = "log_update" /\ proc'[p] # proc[p] /\ nfaults' = nfaults)
                   => /\ proc'[p].pc = "dispatch"
                      /\ Len(voice_commands') = Len(voice_commands)
                      /\ \A i \in DOMAIN voice_commands :
                            i # proc[p].command_id => voice_commands'[i] = voice_commands[i]
                      /\ voice_commands'[proc[p].command_id] =
                            [user_id |-> proc[p].user_id,
                             original_text |-> proc[p].text,
                             processed_command |-> proc[p].command,
                             confidence_score |-> Get(proc[p].command, "confidence", Num(0)),
                             action_taken |-> Word("corrected")]
             /\ (proc[p].kind = "correct" /\ proc[p].pc = "return" /\ proc'[p] # proc[p])
                   => /\ proc'[p].pc = "done"
                      /\ proc'[p].response = "200"
                      /\ proc'[p].result = proc[p].result
                      /\ voice_commands'[proc[p].command_id].action_taken = Word("corrected")
       /\ \A i \in DOMAIN voice_commands :
             voice_commands[i].action_taken = Word("corrected")
                => voice_commands'[i].action_taken = Word("corrected")]_vars

\* C14: when a voice submission has returned, the upload folder holds neither
\* the file it uploaded nor the wav copy made of it.
C14_TempFilesRemoved ==
    \A p \in Procs :
        (proc[p].kind = "upload" /\ proc[p].pc = "done")
            => \A ext \in Exts : UploadFile(p) \notin files /\ WavFile(p, ext) \notin files

\* Request p has ended a RecordSale with success.
C15_Sold(p) ==
    /\ proc[p].pc = "done"
    /\ IsDict(proc[p].command)
    /\ IntentOf(proc[p].command) = Word("record_sale")
    /\ proc[p].result.t = "result"
    /\ proc[p].result.success

\* C15: when two RecordSales of one product have both read the same stored
\* quantity, so that both passed the stock check before either wrote, and both
\* have succeeded (the store not failing), both Sales are stored with the
\* quantities asked for, and the stored quantity is the quantity read less the
\* quantity of one of the two sales only.
C15_BothSucceedOneDecrement ==
    \A p, q \in Procs :
        (/\ p # q
         /\ C15_Sold(p) /\ C15_Sold(q)
         /\ proc[p].product.id = proc[q].product.id
         /\ proc[p].product.quantity = proc[q].product.quantity
         /\ nfaults = 0)
            => /\ proc[p].result.arg # proc[q].result.arg
               /\ sales[proc[p].result.arg.n].quantity = SaleQuantity(proc[p])
               /\ sales[proc[q].result.arg.n].quantity = SaleQuantity(proc[q])
               /\ products[proc[p].product.id].quantity \in
                     { Num(proc[p].product.quantity.n - SaleQuantity(proc[p]).n),
                       Num(proc[p].product.quantity.n - SaleQuantity(proc[q]).n) }

\* Both sales succeeded after reading the same quantity, they sold more than
\* was in stock, and the stored quantity is short of one decrement only.
C15_Witness ==
    \E p, q \in Procs :
        /\ p # q
        /\ C15_Sold(p) /\ C15_Sold(q)
        /\ proc[p].product.id = proc[q].product.id
        /\ proc[p].product.quantity = Num(InitQty)
        /\ proc[q].product.quantity = Num(InitQty)
        /\ Len(sales) = 2
        /\ sales[1].quantity.n > 0 /\ sales[2].quantity.n > 0
        /\ sales[1].quantity.n + sales[2].quantity.n > InitQty
        /\ products[proc[p].product.id].quantity = Num(InitQty - SaleQuantity(proc[p]).n)

\* The rows of a table that request p inserted.
C16_Mine(table, p) == { k \in DOMAIN table : table[k].request = p }

\* C16: RecordSale writes in the order transaction, sale, stock: its
\* transaction insert comes when it has stored no Sale and changes neither
\* sales nor products; its sale insert comes when its transaction is stored and
\* changes no product; and its stock write comes only when both its transaction
\* and its Sale are stored, so that a fault leaves a transaction alone or a
\* transaction with its Sale, never a decrement without a Sale.
C16_WritesInOrder ==
    [][\A p \in Procs :
         /\ (proc[p].pc = "sale_transaction" /\ proc'[p] # proc[p])
               => /\ C16_Mine(sales, p) = {}
                  /\ UNCHANGED <<products, sales>>
         /\ (proc[p].pc = "sale_sale" /\ proc'[p] # proc[p])
               => /\ C16_Mine(transactions, p) # {}
                  /\ UNCHANGED <<products, transactions>>
         /\ (proc[p].pc = "sale_stock" /\ proc'[p] # proc[p])
               => /\ C16_Mine(transactions, p) # {}
                  /\ UNCHANGED <<transactions, sales>>
                  /\ proc'[p].result.success => C16_Mine(sales, p) # {}]_vars

\* C17: the transcription step of a voice submission never ends the request:
\* its failure leaves the request going on to a command; a failure of the
\* language-model step gives the command with intent unknown; and the
\* submission holding that command answers 200 with a result that is a failure.
C17_UpstreamFailuresAbsorbed ==
    [][\A p \in Procs :
         /\ (proc[p].pc = "stt" /\ proc'[p] # proc[p])
               => /\ proc'[p].pc # "done"
                  /\ proc'[p].response = "none"
         /\ (/\ proc[p].kind = "upload"
             /\ proc[p].pc = "parse"
             /\ (proc[p].llm.raised \/ proc[p].llm.text \in BadTexts)
             /\ proc'[p] # proc[p])
               => C8_IsFallback(proc'[p].command)
         /\ (/\ proc[p].kind = "upload"
             /\ proc[p].pc = "return"
             /\ C8_IsFallback(proc[p].command)
             /\ proc'[p] # proc[p])
               => /\ proc'[p].response = "200"
                  /\ ~proc'[p].result.success]_vars

\* The entities a handler requires, by the place of the request in it.
C18_Required(pc) ==
    CASE pc = "record_sale" -> {"product_name"}
      [] pc = "check_stock" -> {"product_name"}
      [] pc = "update_stock" -> {"product_name", "quantity"}
      [] pc = "record_expense" -> {"amount"}
      [] OTHER -> {}

\* C18: a handler called with entities that lack a required entity, or hold
\* null for it, returns its own failure result and changes nothing in the
\* store; and no handler step ends in an exception when the entities are a
\* mapping and the store does not fail, whichever entity is absent or null.
C18_MissingEntityIsFailure ==
    [][\A p \in Procs :
         (/\ proc[p].pc \in Handlers
          /\ IsDict(EntitiesOf(proc[p].command))
          /\ proc'[p] # proc[p]
          /\ nfaults' = nfaults)
            => /\ (\E k \in C18_Required(proc[p].pc) :
                       Get(EntitiesOf(proc[p].command), k, None) = None)
                    => /\ proc'[p].pc = "return"
                       /\ ~proc'[p].result.success
                       /\ UNCHANGED store
               /\ proc'[p].result # ExecutionFailed]_vars

\* The logged command with this id is the caller's.
C19_Owned(command_id, user_id) ==
    /\ command_id \in DOMAIN voice_commands
    /\ voice_commands[command_id].user_id = user_id

\* C19: a correction that names a command id which is no logged command of the
\* caller ends at its lookup with 404 (the store not failing): the store is
\* unchanged, no text went to the parser and no command was made; and a request
\* answered 404 takes no further step.
C19_NotFoundFirst ==
    [][\A p \in Procs :
         /\ (/\ proc[p].pc = "idle"
             /\ proc'[p].kind = "correct"
             /\ proc'[p].command_id # 0
             /\ ~C19_Owned(proc'[p].command_id, proc'[p].user_id)
             /\ nfaults' = nfaults)
               => /\ proc'[p].pc = "done"
                  /\ proc'[p].response = "404"
                  /\ proc'[p].llm = Unset
                  /\ proc'[p].command = Unset
                  /\ proc'[p].result = Unset
                  /\ UNCHANGED store
         /\ proc[p].response = "404" => proc'[p] = proc[p]]_vars

\* One correction named another owner's logged command and one named an id no
\* logged command has, and both were answered 404.
C19_Witness ==
    \E p, q \in Procs :
        /\ proc[p].kind = "correct" /\ proc[p].response = "404"
        /\ proc[p].command_id \in DOMAIN voice_commands
        /\ voice_commands[proc[p].command_id].user_id # proc[p].user_id
        /\ proc[q].kind = "correct" /\ proc[q].response = "404"
        /\ proc[q].command_id \notin DOMAIN voice_commands

\* Request p of the given kind has ended a RecordSale with success.
C20_Sold(p, kind) == proc[p].kind = kind /\ C15_Sold(p)

\* After a submission p that sold and a correction q that sold of the same
\* product, having read the quantity the submission left: both transactions and
\* both Sales are stored, and the stored quantity is short of both quantities.
C20_BothEffectsStand ==
    \A p, q \in Procs :
        (/\ C20_Sold(p, "upload") /\ C20_Sold(q, "correct")
         /\ nfaults = 0
         /\ proc[p].product.id = proc[q].product.id
         /\ proc[q].product.quantity =
               Num(proc[p].product.quantity.n - SaleQuantity(proc[p]).n))
            => /\ \E j, k \in DOMAIN sales :
                    /\ j # k
                    /\ sales[j].request = p /\ sales[j].quantity = SaleQuantity(proc[p])
                    /\ sales[k].request = q /\ sales[k].quantity = SaleQuantity(proc[q])
                    /\ sales[j].transaction_id # sales[k].transaction_id
                    /\ transactions[sales[j].transaction_id].transaction_type = "sale"
                    /\ transactions[sales[k].transaction_id].transaction_type = "sale"
               /\ products[proc[p].product.id].quantity =
                     Num(proc[p].product.quantity.n
                            - SaleQuantity(proc[p]).n - SaleQuantity(proc[q]).n)

\* C20: no step of a correction removes or alters a stored transaction or Sale,
\* and none changes a product except the write of the handler it dispatched; so
\* after a submission that sold q1 and a correction that then sold q2 of the
\* same product, both transactions and both Sales are stored and the quantity
\* is down by q1 + q2.
C20_CorrectionKeepsEffects ==
    [][/\ \A q \in Procs :
             (proc'[q].kind = "correct" /\ proc'[q] # proc[q])
                => /\ \A k \in DOMAIN transactions :
                         k \in DOMAIN transactions' /\ transactions'[k] = transactions[k]
                   /\ \A k \in DOMAIN sales :
                         k \in DOMAIN sales' /\ sales'[k] = sales[k]
                   /\ proc[q].pc \notin {"add_product", "sale_stock", "update_write"}
                         => products' = products
       /\ C20_BothEffectsStand']_vars

\* A submission sold, then a correction of the entry it logged sold again, and
\* the quantity is down by both.
C20_Witness ==
    \E p, q \in Procs :
        /\ C20_Sold(p, "upload") /\ C20_Sold(q, "correct")
        /\ proc[q].command_id = Len(InitCommands) + 1
        /\ voice_commands[proc[q].command_id].action_taken = Word("corrected")
        /\ Len(sales) = 2 /\ Len(transactions) = 2
        /\ sales[1].request = p /\ sales[2].request = q
        /\ proc[p].product.quantity = Num(InitQty)
        /\ products[proc[p].product.id].quantity =
              Num(InitQty - SaleQuantity(proc[p]).n - SaleQuantity(proc[q]).n)

\* C21: a voice submission that was transcribed and parsed adds, at its log
\* step and the store not failing, exactly one entry to the command log, the
\* one of its text and command, and only then goes to the dispatcher; when the
\* log write fails the request ends with nothing changed and takes no further
\* step; no other step of the submission touches the log, and no step of any
\* request removes a logged entry.
C21_LoggedOnceBeforeDispatch ==
    [][/\ \A p \in Procs :
             /\ (/\ proc[p].kind = "upload" /\ proc[p].pc = "log"
                 /\ proc'[p] # proc[p] /\ nfaults' = nfaults)
                   => /\ proc'[p].pc = "dispatch"
                      /\ UNCHANGED ledger
                      /\ voice_commands' =
                            Append(voice_commands,
                                   [user_id |-> proc[p].user_id,
                                    original_text |-> proc[p].text,
                                    processed_command |-> proc[p].command,
                                    action_taken |-> None,
                                    confidence_score |->
                                        Get(proc[p].command, "confidence", Num(0))])
             /\ (/\ proc[p].kind = "upload" /\ proc[p].pc = "log"
                 /\ proc'[p] # proc[p] /\ nfaults' # nfaults)
                   => /\ proc'[p].pc = "done"
                      /\ proc'[p].result = Unset
                      /\ UNCHANGED store
             /\ (proc[p].kind = "upload" /\ proc[p].pc # "log" /\ proc'[p] # proc[p])
                   => voice_commands' = voice_commands
             /\ (proc[p].kind = "upload" /\ proc[p].pc = "done")
                   => proc'[p] = proc[p]
       /\ Len(voice_commands') >= Len(voice_commands)]_vars

\* Request p holds the success result of a RecordSale.
C22_ReportsSuccess(p) ==
    /\ IsDict(proc[p].command)
    /\ IntentOf(proc[p].command) = Word("record_sale")
    /\ proc[p].result.t = "result"
    /\ proc[p].result.success

\* C22: a RecordSale that returns success has stored exactly one sale
\* transaction and exactly one Sale, and that Sale references that transaction.
C22_SuccessMeansAllWritten ==
    \A p \in Procs :
        C22_ReportsSuccess(p)
            => /\ Cardinality(C16_Mine(transactions, p)) = 1
               /\ \A t \in C16_Mine(transactions, p) :
                     transactions[t].transaction_type = "sale"
               /\ Cardinality(C16_Mine(sales, p)) = 1
               /\ \A k \in C16_Mine(sales, p) :
                     sales[k].transaction_id \in C16_Mine(transactions, p)

====
